---- MODULE Spec2Model ----
(***************************************************************************)
(* Model of lib/ktxfilestream.c: the FILE-backed realization of ktxStream. *)
(*                                                                         *)
(* The six stream operations are thin wrappers around the C library's      *)
(* stdio and fstat calls, so the model has two layers:                     *)
(*   - the C library calls the source makes (fread, fwrite, fseek, fseeko, *)
(*     ftello, fstat), modelled on the FILE the stream wraps;              *)
(*   - the ktxFileStream_* functions, translated statement by statement.   *)
(*                                                                         *)
(* A FILE is modelled by                                                   *)
(*   content : the bytes of the file as the stream sees them (data already *)
(*             in the file plus data still held in the stdio buffer),      *)
(*   ksize   : st_size as fstat(fileno(file)) reports it; it lags behind   *)
(*             Len(content) while written data sits in the stdio buffer,   *)
(*   pos     : the file position indicator (what ftello returns),          *)
(*   mode    : the direction of the last transfer since the last           *)
(*             positioning call ("none", "read", "write").                 *)
(***************************************************************************)
EXTENDS Integers, Sequences, FiniteSets, TLC

VARIABLES type, content, ksize, pos, mode, last, rt

vars == <<type, content, ksize, pos, mode, last, rt>>

(* ------------------------------ bounds -------------------------------- *)
MaxSize == 2        \* longest file modelled
MaxPos == 3         \* furthest position modelled
MaxCount == 2       \* largest read size / skip count / element size or count
InitLen == 1        \* longest file the stream is constructed over
MaxByte == 1        \* bytes are 0..MaxByte

Byte == 0..MaxByte

SeqsOfLen(n) == [1..n -> Byte]

Max(a, b) == IF a > b THEN a ELSE b

(* --------------------------- KTX_error_code ---------------------------- *)
KTX_SUCCESS == "KTX_SUCCESS"
KTX_INVALID_VALUE == "KTX_INVALID_VALUE"
KTX_UNEXPECTED_END_OF_FILE == "KTX_UNEXPECTED_END_OF_FILE"
KTX_FILE_WRITE_ERROR == "KTX_FILE_WRITE_ERROR"
KTX_INVALID_OPERATION == "KTX_INVALID_OPERATION"

eStreamTypeFile == "eStreamTypeFile"

(* The FILE the stream wraps, as one value. *)
File == [content |-> content, ksize |-> ksize, pos |-> pos, mode |-> mode]

(* ------------------------- C library calls ----------------------------- *)

(* Data of c with bytes written at offset p; a gap between the old end and *)
(* p reads as zero bytes.                                                  *)
Overwrite(c, p, bytes) ==
    [i \in 1..Max(Len(c), p + Len(bytes)) |->
        IF i > p /\ i <= p + Len(bytes) THEN bytes[i - p]
        ELSE IF i <= Len(c) THEN c[i]
        ELSE 0]

(* Buffered output reaches the file. *)
Flushed(f) == [f EXCEPT !.ksize = Len(f.content)]

(* fread(dst, size, 1, file) on a stream whose last transfer was not a     *)
(* write: one whole element or nothing is counted.                         *)
FreadItem(f, size) ==
    LET avail == Max(0, Len(f.content) - f.pos)
    IN IF avail >= size
       THEN [n |-> 1,
             data |-> SubSeq(f.content, f.pos + 1, f.pos + size),
             file |-> [f EXCEPT !.pos = f.pos + size, !.mode = "read"]]
       ELSE [n |-> 0,
             data |-> SubSeq(f.content, f.pos + 1, f.pos + avail),
             file |-> [f EXCEPT !.pos = f.pos + avail, !.mode = "none"]]

(* fread(dst, size, 1, file).  A zero size returns 0 and touches nothing.  *)
(* Input that directly follows output (no flush or positioning call in     *)
(* between) is undefined: the library may flush and read, fail, or hand    *)
(* back bytes that are not the file's.                                     *)
Fread(f, size) ==
    IF size = 0 THEN {[n |-> 0, data |-> <<>>, file |-> f]}
    ELSE IF f.mode # "write" THEN {FreadItem(f, size)}
    ELSE LET r == FreadItem(Flushed(f), size)
         IN {r, [n |-> 0, data |-> <<>>, file |-> f]}
            \cup (IF r.n = 1
                  THEN {[r EXCEPT !.data = d] : d \in SeqsOfLen(size)}
                  ELSE {})

(* All count elements land at offset p; the stdio buffer is either written *)
(* through (unbuffered stream, or the buffer filled up) or keeps the data. *)
FwriteAt(f, p, bytes, count) ==
    LET c == Overwrite(f.content, p, bytes)
    IN {[n |-> count,
         file |-> [content |-> c, ksize |-> k, pos |-> p + Len(bytes),
                   mode |-> "write"]] : k \in {f.ksize, Len(c)}}

(* fwrite(src, size, count, file) returns the number of elements written.  *)
(* A zero size or count returns 0 and touches nothing.  Output that        *)
(* directly follows input that did not meet end-of-file is undefined: the  *)
(* library may write in place, fail, or write where its read-ahead left    *)
(* the descriptor.                                                         *)
Fwrite(f, src, size, count) ==
    IF size * count = 0 THEN {[n |-> 0, file |-> f]}
    ELSE IF f.mode # "read" THEN FwriteAt(f, f.pos, src, count)
    ELSE FwriteAt(f, f.pos, src, count) \cup {[n |-> 0, file |-> f]}
         \cup UNION {FwriteAt(f, q, src, count) :
                        q \in (f.pos + 1)..Len(f.content)}

(* fseek(file, count, SEEK_CUR): flushes and moves; positions beyond the   *)
(* end of the file are accepted, a negative result is EINVAL.              *)
Fseek(f, count) ==
    IF f.pos + count < 0 THEN [r |-> -1, file |-> f]
    ELSE [r |-> 0,
          file |-> [Flushed(f) EXCEPT !.pos = f.pos + count, !.mode = "none"]]

(* fseeko(file, off, SEEK_SET). *)
Fseeko(f, off) ==
    IF off < 0 THEN [r |-> -1, file |-> f]
    ELSE [r |-> 0, file |-> [Flushed(f) EXCEPT !.pos = off, !.mode = "none"]]

(* ftello(file). *)
Ftello(f) == f.pos

(* fstat(fileno(file), &statbuf): the size the file has on the descriptor. *)
Fstat(f, statOk) ==
    IF statOk THEN [r |-> 0, st_size |-> f.ksize] ELSE [r |-> -1, st_size |-> 0]

(* --------------------- width of the size comparison -------------------- *)
SizeBits == 8       \* modelled width of size_t (64 in the build)

SizeRange == 2 ^ SizeBits

(* An off_t compared with a size_t is converted to the unsigned type. *)
OffAsSize(off) == off % SizeRange

(* Values an uninitialized size_t may hold. *)
Garbage == (0..MaxPos) \cup {SizeRange - 1}

(* ----------------------- ktxFileStream functions ----------------------- *)
(* Each function gives the set of its possible results                     *)
(*   ret    : the KTX_error_code returned,                                 *)
(*   file   : the FILE afterwards,                                         *)
(*   data   : bytes stored through dst,                                    *)
(*   val    : value stored through the off_t* or size_t* argument,         *)
(*   statOk : whether the fstat call it made (if any) succeeded.           *)
Result(ret, f, data, val, statOk) ==
    [ret |-> ret, file |-> f, data |-> data, val |-> val, statOk |-> statOk]

ReadArgsInvalid(strOk, dstOk) == ~strOk \/ ~dstOk

ktxFileStream_read(f, strOk, dstOk, size) ==
    IF ReadArgsInvalid(strOk, dstOk)
    THEN {Result(KTX_INVALID_VALUE, f, <<>>, 0, TRUE)}
    ELSE {Result(IF o.n # 1 THEN KTX_UNEXPECTED_END_OF_FILE ELSE KTX_SUCCESS,
                 o.file, o.data, 0, TRUE) : o \in Fread(f, size)}

(* The check of skip's arguments with the test of count left out. *)
SkipArgsInvalid_NoCountCheck(strOk, count) == ~strOk

SkipArgsInvalid(strOk, count) == ~strOk \/ count < 0

ktxFileStream_skip(f, strOk, count) ==
    IF SkipArgsInvalid(strOk, count)
    THEN {Result(KTX_INVALID_VALUE, f, <<>>, 0, TRUE)}
    ELSE LET o == Fseek(f, count)
         IN {Result(IF o.r # 0 THEN KTX_UNEXPECTED_END_OF_FILE ELSE KTX_SUCCESS,
                    o.file, <<>>, 0, TRUE)}

WriteArgsInvalid(strOk, srcOk) == ~strOk \/ ~srcOk

ktxFileStream_write(f, strOk, srcOk, src, size, count) ==
    IF WriteArgsInvalid(strOk, srcOk)
    THEN {Result(KTX_INVALID_VALUE, f, <<>>, 0, TRUE)}
    ELSE {Result(IF o.n # count THEN KTX_FILE_WRITE_ERROR ELSE KTX_SUCCESS,
                 o.file, <<>>, 0, TRUE) : o \in Fwrite(f, src, size, count)}

GetposArgsInvalid(strOk, posOk) == ~strOk \/ ~posOk

ktxFileStream_getpos(f, strOk, posOk) ==
    IF GetposArgsInvalid(strOk, posOk)
    THEN {Result(KTX_INVALID_VALUE, f, <<>>, 0, TRUE)}
    ELSE {Result(KTX_SUCCESS, f, <<>>, Ftello(f), TRUE)}

GetsizeArgsInvalid(strOk, sizeOk) == ~strOk \/ ~sizeOk

ktxFileStream_getsize(f, strOk, sizeOk) ==
    IF GetsizeArgsInvalid(strOk, sizeOk)
    THEN {Result(KTX_INVALID_VALUE, f, <<>>, 0, TRUE)}
    ELSE {LET st == Fstat(f, statOk)
          IN IF st.r < 0
             THEN Result(KTX_FILE_WRITE_ERROR, f, <<>>, 0, FALSE)
             ELSE Result(KTX_SUCCESS, f, <<>>, st.st_size, TRUE)
          : statOk \in BOOLEAN}

(* The values fileSize may hold after str->getsize(str, &fileSize), whose  *)
(* return value is not looked at: the size stored on success, otherwise    *)
(* whatever the uninitialized local holds.                                 *)
FileSizeAfter(gs) == IF gs.ret = KTX_SUCCESS THEN {gs.val} ELSE Garbage

SetposArgsInvalid(strOk) == ~strOk

ktxFileStream_setpos(f, strOk, off) ==
    IF SetposArgsInvalid(strOk)
    THEN {Result(KTX_INVALID_VALUE, f, <<>>, 0, TRUE)}
    ELSE UNION {
           {IF OffAsSize(off) > fileSize
            THEN Result(KTX_INVALID_OPERATION, gs.file, <<>>, 0, gs.statOk)
            ELSE LET o == Fseeko(gs.file, off)
                 IN Result(IF o.r < 0 THEN KTX_INVALID_OPERATION ELSE KTX_SUCCESS,
                           o.file, <<>>, 0, gs.statOk)
            : fileSize \in FileSizeAfter(gs)}
           : gs \in ktxFileStream_getsize(f, TRUE, TRUE)}

ktxFileStream_construct(strOk, fileOk) ==
    IF ~strOk \/ ~fileOk
    THEN [ret |-> KTX_INVALID_VALUE, type |-> "none"]
    ELSE [ret |-> KTX_SUCCESS, type |-> eStreamTypeFile]

(* ------------------------------ the calls ------------------------------ *)
(* last is the most recent call: its arguments and what it returned.       *)
Call(op, strOk, bufOk, size, count, off, src, r) ==
    [op |-> op, strOk |-> strOk, bufOk |-> bufOk, size |-> size,
     count |-> count, off |-> off, src |-> src,
     ret |-> r.ret, val |-> r.val, data |-> r.data, statOk |-> r.statOk]

NoCall ==
    [op |-> "none", strOk |-> TRUE, bufOk |-> TRUE, size |-> 0, count |-> 0,
     off |-> 0, src |-> <<>>, ret |-> KTX_SUCCESS, val |-> 0, data |-> <<>>,
     statOk |-> TRUE]

(* rt follows the calls through the sequence                               *)
(*   setPosition(p); write(B, 1, |B|); setPosition(p); read(dst, |B|)      *)
(* stage is the number of its calls made so far, in order and successful.  *)
RtIdle == [stage |-> 0, p |-> 0, B |-> <<>>]

RtStep(t, f, c) ==
    IF c.op = "setpos" /\ c.strOk /\ c.ret = KTX_SUCCESS /\ c.statOk
       /\ t.stage = 2 /\ c.off = t.p
    THEN [t EXCEPT !.stage = 3]
    ELSE IF c.op = "setpos" /\ c.strOk /\ c.ret = KTX_SUCCESS /\ c.statOk
            /\ c.off <= f.ksize
    THEN [stage |-> 1, p |-> c.off, B |-> <<>>]
    ELSE IF c.op = "write" /\ c.strOk /\ c.bufOk /\ c.ret = KTX_SUCCESS
            /\ t.stage = 1 /\ c.size = 1 /\ c.count = Len(c.src)
    THEN [t EXCEPT !.stage = 2, !.B = c.src]
    ELSE IF c.op = "read" /\ c.strOk /\ c.bufOk /\ t.stage = 3
            /\ c.size = Len(t.B)
    THEN [t EXCEPT !.stage = 4]
    ELSE RtIdle

InBounds(f) == Len(f.content) <= MaxSize /\ f.pos <= MaxPos

(* The call c returned r. *)
Return(c, r) ==
    /\ InBounds(r.file)
    /\ content' = r.file.content
    /\ ksize' = r.file.ksize
    /\ pos' = r.file.pos
    /\ mode' = r.file.mode
    /\ last' = c
    /\ rt' = RtStep(rt, File, c)
    /\ UNCHANGED type

Init ==
    /\ type = "none"
    /\ content \in UNION {SeqsOfLen(n) : n \in 0..InitLen}
    /\ ksize = Len(content)
    /\ pos = 0
    /\ mode = "none"
    /\ last = NoCall
    /\ rt = RtIdle

Construct(strOk, fileOk) ==
    /\ type = "none"
    /\ LET r == ktxFileStream_construct(strOk, fileOk)
       IN /\ type' = r.type
          /\ last' = Call("construct", strOk, fileOk, 0, 0, 0, <<>>,
                          Result(r.ret, File, <<>>, 0, TRUE))
    /\ UNCHANGED <<content, ksize, pos, mode, rt>>

Read(strOk, dstOk, size) ==
    /\ type = eStreamTypeFile
    /\ \E r \in ktxFileStream_read(File, strOk, dstOk, size) :
          Return(Call("read", strOk, dstOk, size, 0, 0, <<>>, r), r)

Skip(strOk, count) ==
    /\ type = eStreamTypeFile
    /\ \E r \in ktxFileStream_skip(File, strOk, count) :
          Return(Call("skip", strOk, TRUE, 0, count, 0, <<>>, r), r)

(* The source buffers a write is called with: size * count bytes when the  *)
(* stream and the buffer are present (no bytes are looked at otherwise),   *)
(* as far as the file stays within the modelled length.                    *)
SrcArgs(strOk, srcOk, size, count) ==
    IF pos + size * count > MaxSize THEN {}
    ELSE IF strOk /\ srcOk THEN SeqsOfLen(size * count)
    ELSE {<<>>}

Write(strOk, srcOk, size, count) ==
    /\ type = eStreamTypeFile
    /\ \E src \in SrcArgs(strOk, srcOk, size, count) :
          \E r \in ktxFileStream_write(File, strOk, srcOk, src, size, count) :
             Return(Call("write", strOk, srcOk, size, count, 0, src, r), r)

GetPos(strOk, posOk) ==
    /\ type = eStreamTypeFile
    /\ \E r \in ktxFileStream_getpos(File, strOk, posOk) :
          Return(Call("getpos", strOk, posOk, 0, 0, 0, <<>>, r), r)

SetPos(strOk, off) ==
    /\ type = eStreamTypeFile
    /\ \E r \in ktxFileStream_setpos(File, strOk, off) :
          Return(Call("setpos", strOk, TRUE, 0, 0, off, <<>>, r), r)

GetSize(strOk, sizeOk) ==
    /\ type = eStreamTypeFile
    /\ \E r \in ktxFileStream_getsize(File, strOk, sizeOk) :
          Return(Call("getsize", strOk, sizeOk, 0, 0, 0, <<>>, r), r)

Next ==
    \/ \E strOk, fileOk \in BOOLEAN : Construct(strOk, fileOk)
    \/ \E strOk, dstOk \in BOOLEAN, size \in 0..MaxCount :
          Read(strOk, dstOk, size)
    \/ \E strOk \in BOOLEAN, count \in (-1)..MaxCount : Skip(strOk, count)
    \/ \E strOk, srcOk \in BOOLEAN, size, count \in 0..MaxCount :
          Write(strOk, srcOk, size, count)
    \/ \E strOk, posOk \in BOOLEAN : GetPos(strOk, posOk)
    \/ \E strOk \in BOOLEAN, off \in (-1)..MaxPos : SetPos(strOk, off)
    \/ \E strOk, sizeOk \in BOOLEAN : GetSize(strOk, sizeOk)

Spec == Init /\ [][Next]_vars

TypeOK ==
    /\ type \in {"none", eStreamTypeFile}
    /\ content \in UNION {SeqsOfLen(n) : n \in 0..MaxSize}
    /\ ksize \in 0..Len(content)
    /\ pos \in 0..MaxPos
    /\ mode \in {"none", "read", "write"}
    /\ ksize # Len(content) => mode = "write"

(* ------------------------- what a caller observes ---------------------- *)
StreamOps == {"read", "write", "skip", "getpos", "setpos", "getsize"}

(* The value getPosition reports on f. *)
GetPositionOf(f) ==
    (CHOOSE r \in ktxFileStream_getpos(f, TRUE, TRUE) : r.ret = KTX_SUCCESS).val

(* The value getSize reports on f when its query succeeds. *)
GetSizeOf(f) ==
    (CHOOSE r \in ktxFileStream_getsize(f, TRUE, TRUE) : r.ret = KTX_SUCCESS).val

(* The file is left as it was. *)
FileUnchanged == UNCHANGED <<content, ksize, pos, mode>>

(* C1: after a successful read, write, skip, setPosition, getPosition or   *)
(* getSize call, the values getPosition and getSize report satisfy         *)
(* 0 <= position <= size.                                                  *)
C1_PositionWithinSize ==
    (type = eStreamTypeFile /\ last.op \in StreamOps /\ last.ret = KTX_SUCCESS)
        => (0 <= GetPositionOf(File) /\ GetPositionOf(File) <= GetSizeOf(File))

(* C2: skip(n) with n >= 0 from position p in data of size s, p + n > s,   *)
(* returns KTX_UNEXPECTED_END_OF_FILE and leaves the size unchanged.       *)
C2_SkipPastEndFails ==
    [][(last'.op = "skip" /\ last'.strOk /\ last'.count >= 0
        /\ pos + last'.count > Len(content))
          => (last'.ret = KTX_UNEXPECTED_END_OF_FILE
              /\ Len(content') = Len(content))]_vars

(* C3: setPosition(offset) with offset greater than the current size       *)
(* returns KTX_INVALID_OPERATION and leaves position, size and contents    *)
(* as they were.                                                           *)
C3_SetPosBeyondSizeRejected ==
    [][(last'.op = "setpos" /\ last'.strOk /\ last'.off > Len(content))
          => (last'.ret = KTX_INVALID_OPERATION /\ FileUnchanged)]_vars

(* C4: round trip.  With p <= size, each call of                            *)
(*   setPosition(p); write(B, 1, |B|); setPosition(p); read(dst, |B|)      *)
(* succeeds (the size query of setPosition working), and dst ends up       *)
(* equal to B.                                                             *)
C4_RoundTrip ==
    [][/\ (last'.op = "setpos" /\ last'.strOk /\ last'.statOk
           /\ 0 <= last'.off /\ last'.off <= GetSizeOf(File))
             => last'.ret = KTX_SUCCESS
       /\ (rt.stage = 1 /\ last'.op = "write" /\ last'.strOk /\ last'.bufOk
           /\ last'.size = 1 /\ last'.count = Len(last'.src))
             => last'.ret = KTX_SUCCESS
       /\ (rt.stage = 2 /\ last'.op = "setpos" /\ last'.strOk /\ last'.statOk
           /\ last'.off = rt.p)
             => last'.ret = KTX_SUCCESS
       /\ (rt.stage = 3 /\ last'.op = "read" /\ last'.strOk /\ last'.bufOk
           /\ last'.size = Len(rt.B))
             => (last'.ret = KTX_SUCCESS /\ last'.data = rt.B)]_vars

(* C5: a successful write(src, elemSize, elemCount) at position p in data  *)
(* of size s stores the elemSize * elemCount bytes of src at p, leaves the *)
(* position at p + elemSize * elemCount and the size at the larger of s    *)
(* and that position, and getSize then reports the new size.               *)
C5_WriteEffect ==
    [][/\ (last'.op = "write" /\ last'.strOk /\ last'.bufOk
           /\ last'.ret = KTX_SUCCESS)
             => LET n == last'.size * last'.count
                IN /\ pos' = pos + n
                   /\ Len(content') = Max(Len(content), pos + n)
                   /\ SubSeq(content', pos + 1, pos + n) = last'.src
                   /\ GetSizeOf(File') = Len(content')
       /\ (last.op = "write" /\ last.strOk /\ last.bufOk
           /\ last.ret = KTX_SUCCESS
           /\ last'.op = "getsize" /\ last'.ret = KTX_SUCCESS)
             => last'.val = Len(content)]_vars

(* C6: read(dst, size) with size >= 0 at position p in data of size s      *)
(* succeeds exactly when s - p >= size; dst then holds the bytes at        *)
(* p..p+size-1 and the position is p + size; otherwise it returns          *)
(* KTX_UNEXPECTED_END_OF_FILE.                                             *)
C6_ReadAllOrNothing ==
    [][(last'.op = "read" /\ last'.strOk /\ last'.bufOk /\ last'.size >= 0)
          => IF Len(content) - pos >= last'.size
             THEN /\ last'.ret = KTX_SUCCESS
                  /\ last'.data = SubSeq(content, pos + 1, pos + last'.size)
                  /\ pos' = pos + last'.size
             ELSE last'.ret = KTX_UNEXPECTED_END_OF_FILE]_vars

(* The call c has an argument error: an absent stream, an absent buffer or *)
(* output location, or a negative skip count.                              *)
ArgError(c) ==
    /\ c.op \in StreamOps
    /\ \/ ~c.strOk
       \/ c.op \in {"read", "write", "getpos", "getsize"} /\ ~c.bufOk
       \/ c.op = "skip" /\ c.count < 0

(* C7: every call with an argument error returns KTX_INVALID_VALUE and     *)
(* leaves the file's position, size and contents unchanged.                *)
C7_ArgumentErrors ==
    [][ArgError(last') => (last'.ret = KTX_INVALID_VALUE /\ FileUnchanged)]_vars

(* A skip with a negative count on a present stream was rejected, on a     *)
(* file that holds data and whose position has moved.                      *)
C7_Witness ==
    /\ type = eStreamTypeFile
    /\ last.op = "skip" /\ last.strOk /\ last.count < 0
    /\ last.ret = KTX_INVALID_VALUE
    /\ pos > 0 /\ Len(content) > 0

(* C8: from position p, skip(n) with n >= 0 and setPosition(p + n) both    *)
(* succeed or both fail; when they succeed both leave the position at      *)
(* p + n and the data as it was.                                           *)
C8_SkipIsRelativeSeek ==
    type = eStreamTypeFile =>
      \A n \in 0..MaxCount :
        \A a \in ktxFileStream_skip(File, TRUE, n) :
          \A b \in {r \in ktxFileStream_setpos(File, TRUE, pos + n) : r.statOk} :
            /\ (a.ret = KTX_SUCCESS) <=> (b.ret = KTX_SUCCESS)
            /\ a.ret = KTX_SUCCESS =>
                 /\ a.file.pos = pos + n /\ b.file.pos = pos + n
                 /\ a.file.content = content /\ b.file.content = content

(* C9: a getSize call that returns a size returns the number of bytes the  *)
(* stream holds and leaves the file as it was; the size query inside       *)
(* setPosition likewise: with that query working, setPosition accepts a    *)
(* non-negative offset exactly when it is within the bytes the stream      *)
(* holds, and a rejected one leaves the file as it was.                    *)
C9_GetSizePure ==
    [][/\ (last'.op = "getsize" /\ last'.strOk /\ last'.bufOk
           /\ last'.ret = KTX_SUCCESS)
             => (last'.val = Len(content) /\ FileUnchanged)
       /\ (last'.op = "setpos" /\ last'.strOk /\ last'.statOk
           /\ last'.off >= 0)
             => /\ (last'.ret = KTX_SUCCESS) <=> (last'.off <= Len(content))
                /\ last'.ret # KTX_SUCCESS => FileUnchanged]_vars

(* C10: setPosition whose size query failed returns an error and leaves    *)
(* the position alone; it succeeds only when the size was obtained and     *)
(* 0 <= offset <= size; a negative offset gets KTX_INVALID_OPERATION.      *)
C10_SetPosNeedsSize ==
    [][(last'.op = "setpos" /\ last'.strOk)
          => /\ ~last'.statOk => (last'.ret # KTX_SUCCESS /\ pos' = pos)
             /\ last'.ret = KTX_SUCCESS
                  => (last'.statOk /\ 0 <= last'.off
                      /\ last'.off <= GetSizeOf(File))
             /\ last'.off < 0 => last'.ret = KTX_INVALID_OPERATION]_vars

====
